---- MODULE Spec2Model ----
(***************************************************************************)
(* Model of the useFetch hook of react-simple-fetch-api (src/src/index.ts). *)
(*                                                                         *)
(* The hook keeps a state triple (data, loading, error) and a reference to *)
(* the AbortController of the last execute call.  execute runs up to its   *)
(* await in one step; the continuation after the await runs in a second    *)
(* step, when the transport (apiFetch) settles the request.                *)
(***************************************************************************)
EXTENDS Integers, Sequences, FiniteSets

\* ---------------------------------------------------------------- bounds
\* Number of execute calls (and so of AbortControllers) in one behaviour.
MaxCalls == 2
\* Number of abort() invocations one AbortController may receive.
MaxAbortCalls == 2

\* ---------------------------------------------------------------- values
Null == "null"
Absent == "absent"

Payloads == {"p1", "p2"}
Errors == {"e1", "AbortError"}

\* signal field of an options object: none, one the caller supplied, or the
\* signal of the n-th AbortController created by the hook
NoSignal == <<"none", 0>>
CallerSignal == <<"caller", 0>>
SignalOf(t) == <<"hook", t>>

\* initialOptions objects the host may pass (ApiFetchOptions)
BaseOptionsSet ==
    { [url |-> "/users/1", method |-> "GET", body |-> Absent, signal |-> NoSignal],
      [url |-> "/users/1", method |-> "POST", body |-> "b0", signal |-> CallerSignal] }

\* overrideOptions a caller may pass to execute (Partial<ApiFetchOptions>);
\* a field that is Absent is a key the object does not have
NoOverrides == [url |-> Absent, method |-> Absent, body |-> Absent, signal |-> Absent]

OverridesSet ==
    { NoOverrides,
      [url |-> Absent, method |-> Absent, body |-> "b1", signal |-> CallerSignal] }

\* ApiResult<T>: what apiFetch resolves to
OkResult(d) == [ok |-> TRUE, data |-> d, error |-> Null]
FailResult(e) == [ok |-> FALSE, data |-> Null, error |-> e]
NoResult == [ok |-> FALSE, data |-> Null, error |-> Null]

VARIABLES
    state,              \* useState: [data, loading, error]
    abortControllerRef, \* useRef: 0 is null, t > 0 the t-th AbortController
    controllers,        \* the AbortControllers created so far
    requests,           \* the apiFetch invocations made so far
    calls,              \* the execute invocations made so far
    phase,              \* "init", "mounted", "unmounted"
    initialOptions,     \* content of the object passed at the last render
    autoFetch,          \* the flag passed at the last render
    renderPending,      \* a setState has scheduled a re-render
    lastSettled,        \* history: the request that settled last, 0 if none
    resetSinceLast,     \* history: reset was called after the last execute started
    lastOp              \* history: the operation that ran last

vars == <<state, abortControllerRef, controllers, requests, calls, phase,
          initialOptions, autoFetch, renderPending, lastSettled, resetSinceLast,
          lastOp>>

\* ------------------------------------------------------- the state triple
\* useState initial value
IdleState == [data |-> Null, loading |-> FALSE, error |-> Null]

\* mutant of ResetState: reset spreads the previous state and so keeps its
\* data
ResetState_KeepData == [state EXCEPT !.loading = FALSE, !.error = Null]

\* reset: setState({ data: null, loading: false, error: null })
ResetState == [data |-> Null, loading |-> FALSE, error |-> Null]

\* mutant of LoadingState: the start of a call also clears data
LoadingState_ClearData(prev) == [data |-> Null, loading |-> TRUE, error |-> Null]

\* setState((prev) => ({ ...prev, loading: true, error: null }))
LoadingState(prev) == [prev EXCEPT !.loading = TRUE, !.error = Null]

\* mutant of SuccessState: a success spreads the previous state and so keeps
\* its error
SuccessState_KeepError(result) == [state EXCEPT !.data = result.data, !.loading = FALSE]

\* setState({ data: result.data, loading: false, error: null })
SuccessState(result) == [data |-> result.data, loading |-> FALSE, error |-> Null]

\* mutant of FailureState: a failure spreads the previous state and so keeps
\* its data
FailureState_KeepData(result) == [state EXCEPT !.loading = FALSE, !.error = result.error]

\* mutant of FailureState: a failure does not end loading
FailureState_StillLoading(result) == [data |-> Null, loading |-> TRUE, error |-> result.error]

\* setState({ data: null, loading: false, error: result.error })
FailureState(result) == [data |-> Null, loading |-> FALSE, error |-> result.error]

\* mutant of SettledState: a result that arrives after a reset is dropped
SettledState_DroppedAfterReset(result) ==
    IF resetSinceLast THEN state
    ELSE IF result.ok THEN SuccessState(result) ELSE FailureState(result)

\* mutant of SettledState: the state is set only while the host is mounted
SettledState_IfMounted(result) ==
    IF phase # "mounted" THEN state
    ELSE IF result.ok THEN SuccessState(result) ELSE FailureState(result)

\* the if (result.ok) ... else ... after the await
SettledState(result) ==
    IF result.ok THEN SuccessState(result) ELSE FailureState(result)

\* mutant of ExecuteReturn: execute returns what the hook's state shows
\* instead of the result of its own request
ExecuteReturn_FromState(result) ==
    [ok |-> state.error = Null, data |-> state.data, error |-> state.error]

\* return result
ExecuteReturn(result) == result

\* --------------------------------------------------------- AbortController
\* a controller is the number of abort() calls it has received
NewController == 0

\* controller.signal.aborted
Aborted(ctrls, t) == ctrls[t] > 0

\* controller.abort()
Abort(ctrls, t) == [ctrls EXCEPT ![t] = @ + 1]

\* mutant of AbortCurrent: the previous controller is aborted only while
\* the state says a request is in progress
AbortCurrent_IfLoading(ref, ctrls) ==
    IF ref # 0 /\ state.loading THEN Abort(ctrls, ref) ELSE ctrls

\* if (abortControllerRef.current) abortControllerRef.current.abort()
AbortCurrent(ref, ctrls) == IF ref # 0 THEN Abort(ctrls, ref) ELSE ctrls

\* mutant of MergeOptions: the hook's signal is written first, so a signal
\* of the overrides or of the base replaces it
MergeOptions_SignalFirst(base, overrides, t) ==
    [url    |-> IF overrides.url # Absent THEN overrides.url ELSE base.url,
     method |-> IF overrides.method # Absent THEN overrides.method ELSE base.method,
     body   |-> IF overrides.body # Absent THEN overrides.body ELSE base.body,
     signal |-> IF overrides.signal # Absent THEN overrides.signal
                ELSE IF base.signal # NoSignal THEN base.signal ELSE SignalOf(t)]

\* { ...initialOptions, ...overrideOptions, signal: abortControllerRef.current.signal }
MergeOptions(base, overrides, t) ==
    [url    |-> IF overrides.url # Absent THEN overrides.url ELSE base.url,
     method |-> IF overrides.method # Absent THEN overrides.method ELSE base.method,
     body   |-> IF overrides.body # Absent THEN overrides.body ELSE base.body,
     signal |-> SignalOf(t)]

\* ------------------------------------------------------------------ execute
\* execute up to its await, on the hook's mutable parts h = [state,
\* abortControllerRef, controllers, requests, calls]; base is the
\* initialOptions the closure was created with
ExecuteStart(h, base, overrides, origin) ==
    LET aborted == AbortCurrent(h.abortControllerRef, h.controllers)
        t == Len(h.controllers) + 1
    IN  [state |-> LoadingState(h.state),
         abortControllerRef |-> t,
         controllers |-> Append(aborted, NewController),
         requests |-> Append(h.requests,
                        [config |-> MergeOptions(base, overrides, t),
                         settled |-> FALSE, result |-> NoResult]),
         calls |-> Append(h.calls,
                        [origin |-> origin, overrides |-> overrides,
                         pc |-> "await", ret |-> NoResult])]

Hook == [state |-> state, abortControllerRef |-> abortControllerRef,
         controllers |-> controllers, requests |-> requests, calls |-> calls]

SetHook(h) ==
    /\ state' = h.state
    /\ abortControllerRef' = h.abortControllerRef
    /\ controllers' = h.controllers
    /\ requests' = h.requests
    /\ calls' = h.calls

\* the effect body: if (autoFetch) execute()
EffectBody(h, af, base) ==
    IF af THEN ExecuteStart(h, base, NoOverrides, "effect") ELSE h

\* mutant of EffectCleanup: the cleanup aborts only a request that has not
\* settled
EffectCleanup_OnlyInFlight(h) ==
    IF h.abortControllerRef # 0 /\ ~h.requests[h.abortControllerRef].settled
    THEN [h EXCEPT !.controllers = Abort(h.controllers, h.abortControllerRef)]
    ELSE h

\* the effect's cleanup function
EffectCleanup(h) ==
    [h EXCEPT !.controllers = AbortCurrent(h.abortControllerRef, h.controllers)]

\* useCallback(..., [initialOptions]): execute is a new function when the
\* host passes an object other than the one of the previous render
ExecuteChanged(fresh) == fresh

\* useEffect(..., [autoFetch, execute]): the effect runs again when the flag
\* or execute differ from those of the previous render
EffectRerun(fresh, af) == af # autoFetch \/ ExecuteChanged(fresh)

\* -------------------------------------------------------------- the machine
\* a controller can take one more abort() within the bound
CanAbort(ref) == IF ref = 0 THEN TRUE ELSE controllers[ref] < MaxAbortCalls

\* the cleanup and the execute call of one effect run both abort the
\* current controller
CanAbortTwice(ref) == IF ref = 0 THEN TRUE ELSE controllers[ref] + 2 <= MaxAbortCalls

\* one more execute call fits within the bound
CanExecute == Len(calls) < MaxCalls /\ CanAbort(abortControllerRef)

\* The state after the first render of the host component: useState and
\* useRef hold their initial values, useCallback has created execute from
\* the initialOptions of this render, and no effect has run yet.
Init ==
    /\ state = IdleState
    /\ abortControllerRef = 0
    /\ controllers = << >>
    /\ requests = << >>
    /\ calls = << >>
    /\ phase = "init"
    /\ initialOptions \in BaseOptionsSet
    /\ autoFetch \in BOOLEAN
    /\ renderPending = FALSE
    /\ lastSettled = 0
    /\ resetSinceLast = FALSE
    /\ lastOp = "init"

\* The first commit: the effect runs for the first time.
Mount ==
    /\ phase = "init"
    /\ phase' = "mounted"
    /\ SetHook(EffectBody(Hook, autoFetch, initialOptions))
    /\ renderPending' = autoFetch
    /\ lastOp' = "mount"
    /\ UNCHANGED <<initialOptions, autoFetch, lastSettled, resetSinceLast>>

\* A re-render of the mounted host, after one of the hook's own setState
\* calls or because the host itself re-renders.  The host passes the flag af
\* and initialOptions again: the object of the previous render (fresh =
\* FALSE) or a new object of equal content (fresh = TRUE, as an object
\* literal in the call is at every render).  When the effect's dependencies
\* changed, the cleanup of the previous effect runs and then the effect body.
Render(fresh, af) ==
    /\ phase = "mounted"
    /\ LET rerun == EffectRerun(fresh, af)
       IN  /\ rerun => CanAbort(abortControllerRef)
           /\ (rerun /\ af) => /\ Len(calls) < MaxCalls
                               /\ CanAbortTwice(abortControllerRef)
           /\ autoFetch' = af
           /\ SetHook(IF rerun THEN EffectBody(EffectCleanup(Hook), af, initialOptions)
                               ELSE Hook)
           /\ renderPending' = (rerun /\ af)
           /\ resetSinceLast' = IF rerun /\ af THEN FALSE ELSE resetSinceLast
    /\ lastOp' = "render"
    /\ UNCHANGED <<phase, initialOptions, lastSettled>>

\* An event handler of the mounted host calls execute(overrides): the part
\* of execute before the await.
Execute(overrides) ==
    /\ phase = "mounted"
    /\ CanExecute
    /\ SetHook(ExecuteStart(Hook, initialOptions, overrides, "handler"))
    /\ renderPending' = TRUE
    /\ resetSinceLast' = FALSE
    /\ lastOp' = "execute"
    /\ UNCHANGED <<phase, initialOptions, autoFetch, lastSettled>>

\* Results the transport may settle request c with: any payload, any
\* failure, and the cancellation failure only when the signal was aborted.
Outcomes(c) ==
    {OkResult(d) : d \in Payloads}
    \cup {FailResult(e) : e \in {x \in Errors : x = "AbortError" => Aborted(controllers, c)}}

\* apiFetch settles request c with result, and the execute call that awaits
\* it continues: it sets the state from the result and returns the result.
\* Nothing in the continuation looks at the host's lifecycle or at
\* abortControllerRef, so the step is the same in every phase.
Settle(c, result) ==
    /\ c \in 1..Len(requests)
    /\ ~requests[c].settled
    /\ result \in Outcomes(c)
    /\ requests' = [requests EXCEPT ![c] = [@ EXCEPT !.settled = TRUE, !.result = result]]
    /\ state' = SettledState(result)
    /\ calls' = [calls EXCEPT ![c] = [@ EXCEPT !.pc = "returned",
                                               !.ret = ExecuteReturn(result)]]
    /\ renderPending' = TRUE
    /\ lastSettled' = c
    /\ lastOp' = "settle"
    /\ UNCHANGED <<abortControllerRef, controllers, phase, initialOptions,
                   autoFetch, resetSinceLast>>

\* mutant of Reset: reset also aborts the current request and clears the
\* reference to its controller
Reset_AbortsCurrent ==
    /\ phase = "mounted"
    /\ CanAbort(abortControllerRef)
    /\ state' = ResetState
    /\ controllers' = AbortCurrent(abortControllerRef, controllers)
    /\ abortControllerRef' = 0
    /\ renderPending' = TRUE
    /\ resetSinceLast' = TRUE
    /\ lastOp' = "reset"
    /\ UNCHANGED <<requests, calls, phase, initialOptions, autoFetch, lastSettled>>

\* An event handler of the mounted host calls reset().
Reset ==
    /\ phase = "mounted"
    /\ state' = ResetState
    /\ renderPending' = TRUE
    /\ resetSinceLast' = TRUE
    /\ lastOp' = "reset"
    /\ UNCHANGED <<abortControllerRef, controllers, requests, calls, phase,
                   initialOptions, autoFetch, lastSettled>>

\* The host unmounts: the cleanup of the last effect runs.
Unmount ==
    /\ phase = "mounted"
    /\ CanAbort(abortControllerRef)
    /\ phase' = "unmounted"
    /\ SetHook(EffectCleanup(Hook))
    /\ lastOp' = "unmount"
    /\ UNCHANGED <<initialOptions, autoFetch, renderPending, lastSettled,
                   resetSinceLast>>

Next ==
    \/ Mount
    \/ \E fresh \in BOOLEAN, af \in BOOLEAN : Render(fresh, af)
    \/ \E o \in OverridesSet : Execute(o)
    \/ \E c \in 1..MaxCalls, r \in {OkResult(d) : d \in Payloads}
                                   \cup {FailResult(e) : e \in Errors} : Settle(c, r)
    \/ Reset
    \/ Unmount

Spec == Init /\ [][Next]_vars

\* ------------------------------------------------- unbounded behaviours
\* The oldest execute call, once its request has settled and its controller
\* is no longer the current one, is referenced by nothing in the hook: the
\* call has returned and abortControllerRef.current was overwritten.  Forget
\* drops its records and renumbers the remaining controllers, so that the
\* effect can call execute any number of times within MaxCalls records.
Forget ==
    /\ Len(calls) >= 1
    /\ requests[1].settled
    /\ abortControllerRef # 1
    /\ controllers' = Tail(controllers)
    /\ calls' = Tail(calls)
    /\ requests' = [i \in 1..(Len(requests) - 1) |->
                       [requests[i + 1] EXCEPT !.config.signal = SignalOf(i)]]
    /\ abortControllerRef' = IF abortControllerRef = 0 THEN 0 ELSE abortControllerRef - 1
    /\ lastSettled' = IF lastSettled > 1 THEN lastSettled - 1 ELSE 0
    /\ UNCHANGED <<state, phase, initialOptions, autoFetch, renderPending,
                   resetSinceLast, lastOp>>

\* The re-render that a setState of the hook has scheduled, with the flag the
\* host passed before and the same or a new initialOptions object.
RenderScheduled == \E fresh \in BOOLEAN : renderPending /\ Render(fresh, autoFetch)

\* The transport settles the request with index c.
SettleRequest(c) ==
    \E r \in {OkResult(d) : d \in Payloads} \cup {FailResult(e) : e \in Errors} :
        Settle(c, r)

\* A host whose event handlers never call execute: the only execute calls
\* are those of the effect.
LiveNext ==
    \/ Mount
    \/ RenderScheduled
    \/ \E c \in 1..MaxCalls : SettleRequest(c)
    \/ Reset
    \/ Unmount
    \/ Forget

\* The transport settles every request it is given, and a scheduled
\* re-render is performed.
LiveFairness ==
    /\ \A c \in 1..MaxCalls : WF_vars(SettleRequest(c))
    /\ WF_vars(RenderScheduled)
    /\ WF_vars(Mount)

LiveSpec == Init /\ [][LiveNext]_vars /\ LiveFairness

TypeOK ==
    /\ state \in [data : Payloads \cup {Null}, loading : BOOLEAN, error : Errors \cup {Null}]
    /\ abortControllerRef \in 0..Len(controllers)
    /\ Len(controllers) = Len(calls) /\ Len(requests) = Len(calls)
    /\ phase \in {"init", "mounted", "unmounted"}

\* ------------------------------------------------------------ properties
\* the state triple a result stands for
OutcomeState(r) ==
    IF r.ok THEN [data |-> r.data, loading |-> FALSE, error |-> Null]
            ELSE [data |-> Null, loading |-> FALSE, error |-> r.error]

\* request c settles in this step
Settles(c) == c \in 1..Len(requests) /\ ~requests[c].settled /\ requests'[c].settled

\* an execute call starts in this step
Starts == Len(calls') = Len(calls) + 1

MountStep == phase = "init" /\ phase' = "mounted"
UnmountStep == phase = "mounted" /\ phase' = "unmounted"

\* number of execute calls made by the effect
EffectCalls(cs) == Cardinality({c \in 1..Len(cs) : cs[c].origin = "effect"})

\* C1: when call A was superseded by the last call B and A's request settled
\* after B's (no reset since B started), the state is the one B's result
\* stands for.
C1_Supersession ==
    \A a, b \in 1..Len(requests) :
        (a < b /\ b = Len(requests) /\ requests[a].settled /\ requests[b].settled
            /\ lastSettled = a /\ ~resetSinceLast)
        => state = OutcomeState(requests[b].result)

\* C2: a step in which the request of a call whose token is not the current
\* one settles leaves the state triple unchanged.
C2_StaleSettleKeepsState ==
    [][\A c \in 1..Len(requests) :
          (Settles(c) /\ c # abortControllerRef) => state' = state]_vars

\* C3: data and error are never both present.
C3_MutualExclusion == ~(state.data # Null /\ state.error # Null)

\* C3 witness: a failure landed after a success had put data in the state.
C3_Witness ==
    /\ state.error # Null
    /\ \E c \in 1..Len(requests) : requests[c].settled /\ requests[c].result.ok

\* C4 as stated: the start of an execute call sets the state to
\* {data: absent, loading: true, error: absent}.
C4_StartClearsData ==
    [][Starts => state' = [data |-> Null, loading |-> TRUE, error |-> Null]]_vars

\* C4 amended: the start of an execute call keeps data as it was, sets
\* loading and clears error; whenever loading is true, error is absent.
C4_StartKeepsData ==
    /\ [][Starts => state' = [data |-> state.data, loading |-> TRUE, error |-> Null]]_vars
    /\ [](state.loading => state.error = Null)

\* C4 witness: a call has started while data of an earlier success was present.
C4_Witness ==
    /\ state.loading /\ state.data # Null
    /\ Len(requests) > 0 /\ ~requests[Len(requests)].settled

\* C5: while the request of the last issued call has not settled and reset
\* was not called since that call started, loading is true.
C5_LoadingWhileLastPending ==
    (Len(requests) > 0 /\ ~requests[Len(requests)].settled /\ ~resetSinceLast)
    => state.loading

\* C6: a call that has returned returned the result the transport produced
\* for its own request, and a call returns only once its request settled.
C6_ReturnDecoupling ==
    \A c \in 1..Len(calls) :
        /\ calls[c].pc = "returned" <=> requests[c].settled
        /\ calls[c].pc = "returned" => calls[c].ret = requests[c].result

\* C6 witness: a superseded call returned a success that the state does not
\* show, and the call after it returned a different result.
C6_Witness ==
    \E c \in 1..Len(calls) :
        /\ c < Len(calls) /\ calls[c].pc = "returned" /\ calls[c].ret.ok
        /\ state.data # calls[c].ret.data
        /\ calls[c + 1].pc = "returned" /\ calls[c + 1].ret # calls[c].ret

\* C7: when the request of the call that owns the current token settles as
\* failed, the state becomes {data: absent, loading: false, error: the
\* failure's error} and the call returns the failure as its value.
C7_FailureOfCurrent ==
    [][\A c \in 1..Len(requests) :
          (Settles(c) /\ c = abortControllerRef /\ ~requests'[c].result.ok)
          => /\ state' = [data |-> Null, loading |-> FALSE,
                          error |-> requests'[c].result.error]
             /\ requests'[c].result.error \in Errors
             /\ calls'[c].pc = "returned"
             /\ calls'[c].ret = requests'[c].result]_vars

\* C7 witness: the state shows the error of the current call, which has
\* returned that failure.
C7_Witness ==
    /\ abortControllerRef # 0
    /\ requests[abortControllerRef].settled
    /\ ~requests[abortControllerRef].result.ok
    /\ calls[abortControllerRef].ret = requests[abortControllerRef].result
    /\ state = [data |-> Null, loading |-> FALSE,
                error |-> requests[abortControllerRef].result.error]

\* C8: when the request of the call that owns the current token settles as
\* successful, the state becomes {data: the payload, loading: false, error:
\* absent}; every execute call has made exactly one transport invocation.
C8_SuccessOfCurrent ==
    [][\A c \in 1..Len(requests) :
          (Settles(c) /\ c = abortControllerRef /\ requests'[c].result.ok)
          => /\ state' = [data |-> requests'[c].result.data, loading |-> FALSE,
                          error |-> Null]
             /\ requests'[c].result.data \in Payloads
             /\ Len(requests') = Len(calls')]_vars

\* C8 witness: the only call is the effect's call at mount, it succeeded, and
\* the state shows its payload after exactly one transport invocation.
C8_Witness ==
    /\ Len(calls) = 1 /\ calls[1].origin = "effect" /\ Len(requests) = 1
    /\ requests[1].settled /\ requests[1].result.ok
    /\ state = [data |-> requests[1].result.data, loading |-> FALSE, error |-> Null]

\* C9: the effect makes one execute call at mount when autoFetch is set and
\* none when it is not, and while the host stays mounted with the same flag
\* no step makes the effect call execute again.
C9_AutoFetchOnce ==
    [][/\ MountStep => EffectCalls(calls') = IF autoFetch THEN 1 ELSE 0
       /\ (phase = "mounted" /\ autoFetch' = autoFetch)
            => EffectCalls(calls') = EffectCalls(calls)]_vars

\* C10 as stated: unmount calls abort once on the current token when its
\* request is in flight, and calls abort on nothing when no request is.
C10_UnmountSignalsOnlyInFlight ==
    [][UnmountStep =>
         IF abortControllerRef # 0 /\ ~requests[abortControllerRef].settled
         THEN controllers' = [controllers EXCEPT ![abortControllerRef] = @ + 1]
         ELSE controllers' = controllers]_vars

\* C10 amended: unmount calls abort exactly once on the current token, the
\* token of the last issued execute call, whether or not the request of that
\* call has settled, and on no other token; it calls abort on nothing only
\* when execute was never called.
C10_UnmountSignalsCurrent ==
    [][UnmountStep =>
         /\ IF abortControllerRef # 0
            THEN controllers' = [controllers EXCEPT ![abortControllerRef] = @ + 1]
            ELSE controllers' = controllers
         /\ (abortControllerRef = 0 <=> Len(calls) = 0)]_vars

\* C10 witness: the host unmounted while the current request was in flight
\* (it still is), and that request's token got one abort call.
C10_Witness ==
    /\ phase = "unmounted"
    /\ abortControllerRef # 0
    /\ ~requests[abortControllerRef].settled
    /\ controllers[abortControllerRef] = 1

\* C11: whatever the state before it, reset leaves the state at the idle
\* triple {data: absent, loading: false, error: absent}; a reset from the
\* idle triple, and so a second reset in a row, does not change the state.
C11_ResetToIdle ==
    [][lastOp' = "reset" =>
         /\ state' = [data |-> Null, loading |-> FALSE, error |-> Null]
         /\ (state = [data |-> Null, loading |-> FALSE, error |-> Null]
               => state' = state)
         /\ (lastOp = "reset" => state' = state)]_vars

\* C11 witness: reset ran while the current request was in flight and after
\* an earlier request had settled, and the state is the idle triple.
C11_Witness ==
    /\ lastOp = "reset"
    /\ lastSettled # 0
    /\ abortControllerRef # 0 /\ ~requests[abortControllerRef].settled
    /\ state = [data |-> Null, loading |-> FALSE, error |-> Null]

\* keys of an options object other than signal
OptionKeys == {"url", "method", "body"}

\* C12: the configuration of every transport request has, for each key, the
\* value of the call's overrides when the overrides have the key and the
\* value of the base options otherwise, and its signal is the signal of the
\* controller that this call created, never one the caller supplied.
C12_MergedConfig ==
    \A c \in 1..Len(requests) :
        /\ \A k \in OptionKeys :
              requests[c].config[k] =
                  IF calls[c].overrides[k] # Absent THEN calls[c].overrides[k]
                                                    ELSE initialOptions[k]
        /\ requests[c].config.signal = <<"hook", c>>

\* C12 witness: a call whose overrides collide with the base on body and
\* carry a signal, on base options that carry a signal too.
C12_Witness ==
    \E c \in 1..Len(requests) :
        /\ initialOptions.body = "b0" /\ initialOptions.signal = CallerSignal
        /\ calls[c].overrides.body = "b1" /\ calls[c].overrides.signal = CallerSignal
        /\ requests[c].config.body = "b1" /\ requests[c].config.method = "POST"
        /\ requests[c].config.signal = <<"hook", c>>

\* C13: an execute call aborts the controller that was current and installs
\* a controller that did not exist before; every controller other than the
\* current one has been aborted, and at most one controller has not.
C13_SupersededAreSignaled ==
    /\ [][Starts =>
            /\ abortControllerRef' = Len(controllers) + 1
            /\ Len(controllers') = Len(controllers) + 1
            /\ controllers'[abortControllerRef'] = 0
            /\ (abortControllerRef # 0 =>
                  controllers'[abortControllerRef] > controllers[abortControllerRef])]_vars
    /\ [](\A t \in 1..Len(controllers) :
             t # abortControllerRef => controllers[t] > 0)
    /\ [](Cardinality({t \in 1..Len(controllers) : controllers[t] = 0}) <= 1)

\* C13 witness: a second call was made after the first call's request had
\* settled; the first controller is aborted, the current one is not.
C13_Witness ==
    /\ Len(controllers) = 2 /\ abortControllerRef = 2
    /\ controllers[1] = 1 /\ controllers[2] = 0
    /\ requests[1].settled /\ requests[1].result.ok
    /\ ~requests[2].settled

\* C14: a step that calls abort on the current controller and leaves it
\* current is the unmount; otherwise the abort comes with the start of the
\* next execute call.
C14_OnlyExecuteOrUnmountSignals ==
    [][\A t \in 1..Len(controllers) :
          (t = abortControllerRef /\ controllers'[t] > controllers[t])
          => (UnmountStep \/ Starts)]_vars

\* C15: a reset step leaves the reference to the current controller, the
\* abort calls of every controller, the requests and the calls as they were.
C15_ResetFrame ==
    [][lastOp' = "reset" =>
         /\ abortControllerRef' = abortControllerRef
         /\ controllers' = controllers
         /\ requests' = requests
         /\ calls' = calls
         /\ phase' = phase]_vars

\* C15 witness: reset ran while the current request was in flight; the
\* request is still in flight and its controller has not been aborted.
C15_Witness ==
    /\ lastOp = "reset"
    /\ abortControllerRef # 0
    /\ ~requests[abortControllerRef].settled
    /\ controllers[abortControllerRef] = 0
    /\ state = [data |-> Null, loading |-> FALSE, error |-> Null]

\* C16: when reset was called after the last execute call started and the
\* request of that call then settles, the state becomes the one its result
\* stands for.
C16_SettleAfterReset ==
    [][\A c \in 1..Len(requests) :
          (Settles(c) /\ c = Len(requests) /\ resetSinceLast)
          => state' = OutcomeState(requests'[c].result)]_vars

\* C16 witness: reset was called while the last call was in flight, that
\* call's request settled last, and the state shows its outcome, not the
\* idle triple.
C16_Witness ==
    /\ resetSinceLast
    /\ lastOp = "settle"
    /\ lastSettled = Len(requests)
    /\ state = OutcomeState(requests[lastSettled].result)
    /\ state # [data |-> Null, loading |-> FALSE, error |-> Null]

\* C17 as stated: after the unmount the current controller has been aborted
\* and no step changes the state triple any more.
C17_NoMutationAfterUnmount ==
    /\ []((phase = "unmounted" /\ abortControllerRef # 0)
            => controllers[abortControllerRef] > 0)
    /\ [][phase = "unmounted" => state' = state]_vars

\* C17 amended: after the unmount the current controller has been aborted,
\* and a request that settles after the unmount still sets the state triple
\* to the one its result stands for.
C17_SettleAfterUnmountWrites ==
    /\ []((phase = "unmounted" /\ abortControllerRef # 0)
            => controllers[abortControllerRef] > 0)
    /\ [][\A c \in 1..Len(requests) :
            (phase = "unmounted" /\ Settles(c))
            => state' = OutcomeState(requests'[c].result)]_vars

\* C17 witness: the host unmounted while the current request was in flight;
\* the request settled afterwards, with its controller aborted, and the
\* state shows its outcome.
C17_Witness ==
    /\ phase = "unmounted"
    /\ lastOp = "settle"
    /\ lastSettled = abortControllerRef
    /\ controllers[abortControllerRef] > 0
    /\ state = OutcomeState(requests[abortControllerRef].result)
    /\ ~state.loading

\* C18: with a transport that settles every request and no execute call
\* from an event handler, the hook eventually reaches and stays in a state
\* with loading false and no request in flight.
C18_EventuallyQuiescent ==
    <>[](~state.loading /\ \A c \in 1..Len(requests) : requests[c].settled)

====
